---- MODULE Spec2Model ----
(***************************************************************************)
(* Model of the brightness crate's async back ends: src/linux.rs (one      *)
(* kernel backlight scale, set through the login1 bus with a file          *)
(* fallback) and src/windows.rs (discovery by positional correlation,      *)
(* DDC/CI and IOCTL brightness protocols).                                 *)
(*                                                                         *)
(* Machine integers are kept at their width.  A natural number wider than  *)
(* the checker's own integers is a little-endian sequence of limbs in      *)
(* base 2^15 without leading zero limbs; <<>> is zero.                     *)
(***************************************************************************)
EXTENDS Integers, Sequences, FiniteSets, TLC

\* ------------------------------------------------------------------------
\* Natural numbers of arbitrary size
\* ------------------------------------------------------------------------
LimbBits == 15

RECURSIVE Pow2Int(_)
Pow2Int(k) == IF k = 0 THEN 1 ELSE 2 * Pow2Int(k - 1)

Base == Pow2Int(LimbBits)

RECURSIVE Norm(_)
Norm(x) ==
  IF x = <<>> THEN <<>>
  ELSE IF x[Len(x)] = 0 THEN Norm(SubSeq(x, 1, Len(x) - 1)) ELSE x

RECURSIVE FromInt(_)
FromInt(n) == IF n = 0 THEN <<>> ELSE <<n % Base>> \o FromInt(n \div Base)

RECURSIVE ToInt(_)
ToInt(x) == IF x = <<>> THEN 0 ELSE Head(x) + Base * ToInt(Tail(x))

Limb(x, i) == IF i <= Len(x) THEN x[i] ELSE 0

Rest(x) == IF x = <<>> THEN x ELSE Tail(x)

RECURSIVE AddC(_, _, _)
AddC(a, b, c) ==
  IF a = <<>> /\ b = <<>> THEN (IF c = 0 THEN <<>> ELSE <<c>>)
  ELSE LET s == Limb(a, 1) + Limb(b, 1) + c
       IN  <<s % Base>> \o AddC(Rest(a), Rest(b), s \div Base)

Add(a, b) == AddC(a, b, 0)

RECURSIVE SubB(_, _, _)
SubB(a, b, br) ==
  IF a = <<>> THEN <<>>
  ELSE LET d == a[1] - Limb(b, 1) - br
       IN  IF d < 0 THEN <<d + Base>> \o SubB(Tail(a), Rest(b), 1)
           ELSE <<d>> \o SubB(Tail(a), Rest(b), 0)

\* a - b for a >= b
Sub(a, b) == Norm(SubB(a, b, 0))

RECURSIVE LessFrom(_, _, _)
LessFrom(a, b, i) ==
  IF i = 0 THEN FALSE
  ELSE IF a[i] # b[i] THEN a[i] < b[i] ELSE LessFrom(a, b, i - 1)

Less(a, b) ==
  IF Len(a) # Len(b) THEN Len(a) < Len(b) ELSE LessFrom(a, b, Len(a))

Leq(a, b) == ~Less(b, a)

RECURSIVE MulLimb(_, _, _)
MulLimb(a, d, c) ==
  IF a = <<>> THEN (IF c = 0 THEN <<>> ELSE <<c>>)
  ELSE LET p == a[1] * d + c
       IN  <<p % Base>> \o MulLimb(Tail(a), d, p \div Base)

RECURSIVE Mul(_, _)
Mul(a, b) ==
  IF a = <<>> \/ b = <<>> THEN <<>>
  ELSE Norm(Add(MulLimb(a, Head(b), 0),
                IF Mul(a, Tail(b)) = <<>> THEN <<>> ELSE <<0>> \o Mul(a, Tail(b))))

RECURSIVE Zeros(_)
Zeros(k) == IF k = 0 THEN <<>> ELSE <<0>> \o Zeros(k - 1)

\* x * 2^k
ShiftLeft(x, k) ==
  IF x = <<>> THEN <<>>
  ELSE Zeros(k \div LimbBits) \o MulLimb(x, Pow2Int(k % LimbBits), 0)

RECURSIVE DivSmallFrom(_, _, _, _)
\* quotient limbs of x by the small divisor d, most significant limb first
DivSmallFrom(x, d, i, r) ==
  IF i = 0 THEN <<>>
  ELSE LET n == r * Base + x[i]
       IN  DivSmallFrom(x, d, i - 1, n % d) \o <<n \div d>>

\* x \div d for a divisor d below 2^15
DivSmall(x, d) == Norm(DivSmallFrom(x, d, Len(x), 0))

\* x \div 2^k
ShiftRight(x, k) ==
  IF k \div LimbBits >= Len(x) THEN <<>>
  ELSE DivSmall(SubSeq(x, (k \div LimbBits) + 1, Len(x)), Pow2Int(k % LimbBits))

\* x % 2^k
LowBits(x, k) ==
  IF k \div LimbBits >= Len(x) THEN x
  ELSE Norm(SubSeq(x, 1, k \div LimbBits)
            \o <<x[(k \div LimbBits) + 1] % Pow2Int(k % LimbBits)>>)

RECURSIVE BitLenInt(_)
BitLenInt(n) == IF n = 0 THEN 0 ELSE 1 + BitLenInt(n \div 2)

BitLen(x) == IF x = <<>> THEN 0 ELSE LimbBits * (Len(x) - 1) + BitLenInt(x[Len(x)])

RECURSIVE Digit(_, _, _, _)
\* the largest q in lo..hi with q * d <= r, given lo * d <= r
Digit(r, d, lo, hi) ==
  IF lo = hi THEN lo
  ELSE IF Leq(MulLimb(d, (lo + hi + 1) \div 2, 0), r)
       THEN Digit(r, d, (lo + hi + 1) \div 2, hi)
       ELSE Digit(r, d, lo, ((lo + hi + 1) \div 2) - 1)

RECURSIVE DivModFrom(_, _, _, _)
\* long division, one limb of n at a time from limb i down to limb 1
DivModFrom(n, d, i, r) ==
  IF i = 0 THEN [quot |-> <<>>, rem |-> r]
  ELSE LET r2 == Norm(<<n[i]>> \o r)
           q == Digit(r2, d, 0, Base - 1)
           rest == DivModFrom(n, d, i - 1, Sub(r2, MulLimb(d, q, 0)))
       IN  [quot |-> rest.quot \o <<q>>, rem |-> rest.rem]

RECURSIVE ShortDivFrom(_, _, _, _)
\* short division by a one-limb divisor d, from limb i down to limb 1
ShortDivFrom(n, d, i, r) ==
  IF i = 0 THEN [quot |-> <<>>, rem |-> r]
  ELSE LET rest == ShortDivFrom(n, d, i - 1, (r * Base + n[i]) % d)
       IN  [quot |-> rest.quot \o <<(r * Base + n[i]) \div d>>, rem |-> rest.rem]

\* n \div d and n % d for d > 0
DivMod(n, d) ==
  IF Len(d) = 1
  THEN [quot |-> Norm(ShortDivFrom(n, d[1], Len(n), 0).quot),
        rem |-> FromInt(ShortDivFrom(n, d[1], Len(n), 0).rem)]
  ELSE [quot |-> Norm(DivModFrom(n, d, Len(n), <<>>).quot),
        rem |-> DivModFrom(n, d, Len(n), <<>>).rem]

Div(n, d) == DivMod(n, d).quot

\* ------------------------------------------------------------------------
\* Machine integers
\* ------------------------------------------------------------------------
U32Bits == 32
U64Bits == 64

U32Max == <<32767, 32767, 3>>

Fits(x, bits) == BitLen(x) <= bits

\* the low `bits` bits of x: a wrapping operation, or an `as` cast
Wrap(x, bits) == LowBits(x, bits)

\* An operation of a machine integer type gives the wrapped value and says
\* whether it overflowed: an overflow panics in a build with overflow checks
\* (debug profile) and wraps in one without (release profile).
U32Mul(a, b) ==
  LET exact == Norm(Mul(a, b))
  IN  [overflow |-> ~Fits(exact, U32Bits), val |-> Wrap(exact, U32Bits)]

U32Add(a, b) ==
  LET exact == Norm(Add(a, b))
  IN  [overflow |-> ~Fits(exact, U32Bits), val |-> Wrap(exact, U32Bits)]

U32Sub(a, b) ==
  IF Leq(b, a) THEN [overflow |-> FALSE, val |-> Sub(a, b)]
  ELSE [overflow |-> TRUE, val |-> Sub(Add(a, ShiftLeft(<<1>>, U32Bits)), b)]

U64Mul(a, b) ==
  LET exact == Norm(Mul(a, b))
  IN  [overflow |-> ~Fits(exact, U64Bits), val |-> Wrap(exact, U64Bits)]

\* ------------------------------------------------------------------------
\* IEEE 754 binary64, non-negative values, round to nearest even.
\* A finite non-zero value is m * 2^e with 2^52 <= m < 2^53.
\* ------------------------------------------------------------------------
MantBits == 53

F64NaN == [k |-> "nan", m |-> <<>>, e |-> 0]
F64Inf == [k |-> "inf", m |-> <<>>, e |-> 0]
F64Zero == [k |-> "zero", m |-> <<>>, e |-> 0]
F64Fin(m, e) == [k |-> "fin", m |-> m, e |-> e]

\* the binary64 nearest to (x + f) * 2^e, where 0 < f < 1 if sticky and f = 0
\* otherwise; a sticky x has more than MantBits bits
F64FromScaled(x, sticky, e) ==
  IF x = <<>> THEN F64Zero
  ELSE IF BitLen(x) <= MantBits
  THEN F64Fin(ShiftLeft(x, MantBits - BitLen(x)), e - (MantBits - BitLen(x)))
  ELSE LET s == BitLen(x) - MantBits
           m == ShiftRight(x, s)
           low == LowBits(x, s)
           half == ShiftLeft(<<1>>, s - 1)
           up == Less(half, low) \/ (low = half /\ (sticky \/ m[1] % 2 = 1))
           m2 == IF up THEN Add(m, <<1>>) ELSE m
       IN  IF BitLen(m2) > MantBits THEN F64Fin(ShiftRight(m2, 1), e + s + 1)
           ELSE F64Fin(m2, e + s)

\* `x as f64` for an unsigned integer x
F64FromInt(x) == F64FromScaled(x, FALSE, 0)

RECURSIVE TrailingZeroBitsInt(_)
TrailingZeroBitsInt(n) == IF n % 2 = 1 THEN 0 ELSE 1 + TrailingZeroBitsInt(n \div 2)

RECURSIVE TrailingZeroBits(_)
\* the number of trailing zero bits of x > 0
TrailingZeroBits(x) ==
  IF x[1] = 0 THEN LimbBits + TrailingZeroBits(Tail(x)) ELSE TrailingZeroBitsInt(x[1])

\* the quotient is taken with MantBits + 2 bits or more and a sticky bit for
\* the remainder, then rounded once; the divisor's trailing zero bits are
\* moved into the exponent first
F64Div(a, b) ==
  IF a.k = "nan" \/ b.k = "nan" THEN F64NaN
  ELSE IF a.k = "inf" THEN (IF b.k = "inf" THEN F64NaN ELSE F64Inf)
  ELSE IF b.k = "inf" THEN F64Zero
  ELSE IF b.k = "zero" THEN (IF a.k = "zero" THEN F64NaN ELSE F64Inf)
  ELSE IF a.k = "zero" THEN F64Zero
  ELSE LET t == TrailingZeroBits(b.m)
           dm == DivMod(ShiftLeft(a.m, MantBits + 2), ShiftRight(b.m, t))
       IN  F64FromScaled(dm.quot, dm.rem # <<>>, a.e - b.e - t - (MantBits + 2))

F64Mul(a, b) ==
  IF a.k = "nan" \/ b.k = "nan" THEN F64NaN
  ELSE IF a.k = "inf" \/ b.k = "inf"
  THEN (IF a.k = "zero" \/ b.k = "zero" THEN F64NaN ELSE F64Inf)
  ELSE IF a.k = "zero" \/ b.k = "zero" THEN F64Zero
  ELSE F64FromScaled(Mul(a.m, b.m), FALSE, a.e + b.e)

F64RoundTruncating(a) == a

\* f64::round: to the nearest integer, halves away from zero
F64RoundHalfAway(a) ==
  IF a.k # "fin" \/ a.e >= 0 THEN a
  ELSE IF 0 - a.e > MantBits THEN F64Zero
  ELSE LET s == 0 - a.e
           int == ShiftRight(a.m, s)
           frac == LowBits(a.m, s)
           half == ShiftLeft(<<1>>, s - 1)
       IN  F64FromInt(IF Less(frac, half) THEN int ELSE Add(int, <<1>>))

\* `x as u32` for a float: truncates, saturates, and sends NaN to 0
F64AsU32(a) ==
  IF a.k = "nan" \/ a.k = "zero" THEN <<>>
  ELSE IF a.k = "inf" \/ a.e >= 0 THEN U32Max
  ELSE IF Less(U32Max, ShiftRight(a.m, 0 - a.e)) THEN U32Max
  ELSE ShiftRight(a.m, 0 - a.e)

\* ------------------------------------------------------------------------
\* State
\* ------------------------------------------------------------------------
VARIABLES
  overflow_checks,  \* the build profile: TRUE if integer overflow panics
  lx_max,           \* linux: content of the device's max_brightness file
  lx_actual,        \* linux: content of the device's actual_brightness file
  lx_pc,            \* linux: where the set in flight is suspended, or "idle"
  lx_percentage,    \* linux: the caller's argument of the set in flight
  lx_desired,       \* linux: desired_value of the set in flight
  lx_log,           \* linux: external calls made by the current operation
  lx_ret,           \* linux: what the last finished operation returned
  dd_values,        \* ddc/ci: a (min, current, max) reading
  dd_percentage,    \* ddc/ci: get_current_percentage of the reading, once taken
  dd_current,       \* ddc/ci: percentage_to_current of a percentage, once taken
  lv_levels,        \* ioctl: a list of supported levels
  lv_percentage,    \* ioctl: a requested percentage
  lv_nearest,       \* ioctl: get_nearest of the two, once taken
  wd_technology,    \* windows device: its output_technology
  wd_percentage,    \* windows device: the argument of the last set
  wd_log,           \* windows device: the platform calls of the last operation
  wd_ret,           \* windows device: what the last operation returned
  ds_platform,      \* discovery: "windows" or "linux"
  ds_pc,            \* discovery: the step brightness_devices is at
  ds_config,        \* discovery: what the display-config queries answered
  ds_map,           \* discovery: device_info_map, device path -> technology
  ds_count,         \* discovery: how many logical monitors / directory entries
  ds_seen,          \* discovery: per monitor / entry, what its enumeration answered
  ds_items,         \* discovery: the items of the sequence, in order
  ds_log,           \* discovery: the platform calls made, in order
  ds_caller,        \* discovery: what the caller did with the sequence so far
  ds_released,      \* discovery: handles released by drops on the caller's side
  er_sys,           \* errors: a SysError of the Windows platform code
  er_public         \* errors: the public Error made from it, once converted

linuxVars == <<lx_max, lx_actual, lx_pc, lx_percentage, lx_desired, lx_log, lx_ret>>

ddcciVars == <<dd_values, dd_percentage, dd_current>>

levelVars == <<lv_levels, lv_percentage, lv_nearest>>

deviceVars == <<wd_technology, wd_percentage, wd_log, wd_ret>>

discoveryVars ==
  <<ds_platform, ds_pc, ds_config, ds_map, ds_count, ds_seen, ds_items, ds_log,
    ds_caller, ds_released>>

errorVars == <<er_sys, er_public>>

vars ==
  <<overflow_checks, linuxVars, ddcciVars, levelVars, deviceVars, discoveryVars, errorVars>>

\* the variables each part of the model leaves alone
notLinux == <<ddcciVars, levelVars, deviceVars, discoveryVars, errorVars>>

notDdcci == <<overflow_checks, linuxVars, levelVars, deviceVars, discoveryVars, errorVars>>

notLevels == <<overflow_checks, linuxVars, ddcciVars, deviceVars, discoveryVars, errorVars>>

notDevice == <<linuxVars, ddcciVars, levelVars, discoveryVars, errorVars>>

notDiscovery == <<overflow_checks, linuxVars, ddcciVars, levelVars, deviceVars, errorVars>>

notErrors ==
  <<overflow_checks, linuxVars, ddcciVars, levelVars, deviceVars, discoveryVars>>

\* the values of the parts that a specification does not use
LinuxIdle ==
  /\ lx_max = <<>>
  /\ lx_actual = <<>>
  /\ lx_pc = "idle"
  /\ lx_percentage = <<>>
  /\ lx_desired = [overflow |-> FALSE, lossy |-> FALSE, val |-> <<>>]
  /\ lx_log = <<>>
  /\ lx_ret = [op |-> "none", kind |-> "ok", val |-> <<>>, at |-> ""]

NoResult == [done |-> FALSE, of |-> <<>>, overflow |-> FALSE, val |-> <<>>]

DdcciIdle ==
  /\ dd_values = [min |-> <<>>, current |-> <<>>, max |-> <<>>]
  /\ dd_percentage = NoResult
  /\ dd_current = NoResult

LevelsIdle ==
  /\ lv_levels = <<>>
  /\ lv_percentage = 0
  /\ lv_nearest = -1

DeviceIdle ==
  /\ wd_technology = ""
  /\ wd_percentage = 0
  /\ wd_log = <<>>
  /\ wd_ret = [op |-> "none", kind |-> "ok", val |-> <<>>, at |-> ""]

\* DISPLAY_DEVICEW.DeviceID values: the device paths
DevicePaths == {"A", "B"}

\* every query answered well, or not asked yet
NoConfig ==
  [sizes_ok |-> TRUE, query_ok |-> TRUE, entry_failed |-> FALSE, entry_denied |-> FALSE,
   monitors_ok |-> TRUE, read_dir_ok |-> TRUE]

\* HashMap::new(): no path has an entry
EmptyMap == [path \in DevicePaths |-> "absent"]

\* no error converted yet
NoError == [kind |-> "none", device |-> <<>>, source |-> <<>>]

ErrorsIdle ==
  /\ er_sys = <<>>
  /\ er_public = NoError

\* the caller has polled nothing, holds no Device and still has the sequence
NoCaller == [yielded |-> 0, held |-> {}, stream_dropped |-> FALSE]

DiscoveryIdle ==
  /\ ds_platform = ""
  /\ ds_pc = "idle"
  /\ ds_config = NoConfig
  /\ ds_map = EmptyMap
  /\ ds_count = 0
  /\ ds_seen = <<>>
  /\ ds_items = <<>>
  /\ ds_log = <<>>
  /\ ds_caller = NoCaller
  /\ ds_released = {}

\* ------------------------------------------------------------------------
\* src/linux.rs: get and set of one backlight device
\* ------------------------------------------------------------------------
Hundred == FromInt(100)

\* values the kernel's backlight files may hold (read_value parses a u32)
MaxValues == {FromInt(n) : n \in {0, 100, 255}} \cup {U32Max}

ActualValues ==
  {FromInt(n) : n \in {0, 50, 128, 200, 42949672, 42949673}} \cup {U32Max}

\* percentages a caller may pass to set
Percentages == {FromInt(n) : n \in {0, 1, 75, 100, 101, 200}} \cup {U32Max}

Ret(op, kind, val, at) == [op |-> op, kind |-> kind, val |-> val, at |-> at]

NoRet == Ret("none", "ok", <<>>, "")

\* one call to the outside: which, the raw value passed, how it ended
Call(call, value, result) == [call |-> call, value |-> value, result |-> result]

NoDesired == [overflow |-> FALSE, lossy |-> FALSE, val |-> <<>>]

\* lines 25-29: the percentage, from the two values read
get_percentage(max, actual) ==
  IF max = <<>> THEN [overflow |-> FALSE, val |-> <<>>]
  ELSE LET product == U32Mul(actual, Hundred)
       IN  [overflow |-> product.overflow, val |-> Wrap(Div(product.val, max), U32Bits)]

\* get: read max, read actual (either read may fail), then the percentage
AsyncDeviceImpl_get(max_ok, actual_ok, max, actual, oc) ==
  IF ~max_ok THEN Ret("get", "err", <<>>, "read_max")
  ELSE IF ~actual_ok THEN Ret("get", "err", <<>>, "read_actual")
  ELSE LET percentage == get_percentage(max, actual)
       IN  IF percentage.overflow /\ oc THEN Ret("get", "panic", <<>>, "mul")
           ELSE Ret("get", "ok", percentage.val, "")

clamp_percentage_missing(percentage) == percentage

\* line 34: percentage.min(100)
clamp_percentage(percentage) == IF Less(percentage, Hundred) THEN percentage ELSE Hundred

\* line 36: the product in u64, the quotient cast to u32
desired_value(percentage, max) ==
  LET product == U64Mul(percentage, max)
      quotient == Div(product.val, Hundred)
  IN  [overflow |-> product.overflow,
       lossy |-> ~Fits(quotient, U32Bits),
       val |-> Wrap(quotient, U32Bits)]

falls_back_on_any_error(response) == response # "Ok"

\* line 55: the one bus failure that leads to the file write
falls_back(response) == response = "MethodError"

BusResponses == {"Ok", "MethodError", "Other"}

LinuxGet ==
  /\ lx_pc = "idle"
  /\ \E max_ok \in BOOLEAN, actual_ok \in BOOLEAN :
       /\ lx_ret' = AsyncDeviceImpl_get(max_ok, actual_ok, lx_max, lx_actual, overflow_checks)
       /\ lx_log' = IF ~max_ok THEN <<Call("read_max", <<>>, "Err")>>
                    ELSE <<Call("read_max", <<>>, "Ok"),
                           Call("read_actual", <<>>, IF actual_ok THEN "Ok" ELSE "Err")>>
  /\ lx_percentage' = <<>>
  /\ lx_desired' = NoDesired
  /\ UNCHANGED <<overflow_checks, lx_max, lx_actual, lx_pc>>
  /\ UNCHANGED notLinux

\* set, lines 34-37: clamp, read max, compute the raw value
LinuxSetStart ==
  /\ lx_pc = "idle"
  /\ \E percentage \in Percentages, max_ok \in BOOLEAN :
       /\ lx_percentage' = percentage
       /\ lx_log' = <<Call("read_max", <<>>, IF max_ok THEN "Ok" ELSE "Err")>>
       /\ IF ~max_ok
          THEN /\ lx_ret' = Ret("set", "err", <<>>, "read_max")
               /\ lx_desired' = NoDesired
               /\ UNCHANGED lx_pc
          ELSE LET desired == desired_value(clamp_percentage(percentage), lx_max)
               IN  IF desired.overflow /\ overflow_checks
                   THEN /\ lx_ret' = Ret("set", "panic", <<>>, "mul")
                        /\ lx_desired' = NoDesired
                        /\ UNCHANGED lx_pc
                   ELSE /\ lx_desired' = desired
                        /\ lx_pc' = "connect"
                        /\ lx_ret' = NoRet
  /\ UNCHANGED <<overflow_checks, lx_max, lx_actual>>
  /\ UNCHANGED notLinux

\* set, lines 38-43: zbus::Connection::system()
LinuxBusConnect ==
  /\ lx_pc = "connect"
  /\ \E ok \in BOOLEAN :
       /\ lx_log' = Append(lx_log, Call("connect", <<>>, IF ok THEN "Ok" ELSE "Err"))
       /\ IF ok THEN lx_pc' = "call" /\ UNCHANGED lx_ret
          ELSE lx_pc' = "idle" /\ lx_ret' = Ret("set", "err", <<>>, "SettingBrightnessFailed")
  /\ UNCHANGED <<overflow_checks, lx_max, lx_actual, lx_percentage, lx_desired>>
  /\ UNCHANGED notLinux

\* set, lines 44-66: the SetBrightness call and the match on its response
LinuxCallMethod ==
  /\ lx_pc = "call"
  /\ \E response \in BusResponses :
       /\ lx_log' = Append(lx_log, Call("SetBrightness", lx_desired.val, response))
       /\ IF response = "Ok" THEN lx_pc' = "idle" /\ lx_ret' = Ret("set", "ok", <<>>, "")
          ELSE IF falls_back(response) THEN lx_pc' = "write" /\ UNCHANGED lx_ret
          ELSE lx_pc' = "idle" /\ lx_ret' = Ret("set", "err", <<>>, "SettingBrightnessFailed")
  /\ UNCHANGED <<overflow_checks, lx_max, lx_actual, lx_percentage, lx_desired>>
  /\ UNCHANGED notLinux

\* set_value, lines 95-101, and line 59-60: its outcome is the outcome of set
LinuxSetValue ==
  /\ lx_pc = "write"
  /\ lx_pc' = "idle"
  /\ \E ok \in BOOLEAN :
       /\ lx_log' = Append(lx_log, Call("write", lx_desired.val, IF ok THEN "Ok" ELSE "Err"))
       /\ lx_ret' = IF ok THEN Ret("set", "ok", <<>>, "")
                    ELSE Ret("set", "err", <<>>, "set_value")
  /\ UNCHANGED <<overflow_checks, lx_max, lx_actual, lx_percentage, lx_desired>>
  /\ UNCHANGED notLinux

LinuxInit ==
  /\ overflow_checks \in BOOLEAN
  /\ lx_max \in MaxValues
  /\ lx_actual \in ActualValues
  /\ lx_pc = "idle"
  /\ lx_percentage = <<>>
  /\ lx_desired = NoDesired
  /\ lx_log = <<>>
  /\ lx_ret = NoRet
  /\ DdcciIdle
  /\ LevelsIdle
  /\ DeviceIdle
  /\ DiscoveryIdle
  /\ ErrorsIdle

LinuxNext ==
  \/ LinuxGet
  \/ LinuxSetStart
  \/ LinuxBusConnect
  \/ LinuxCallMethod
  \/ LinuxSetValue

SpecLinux == LinuxInit /\ [][LinuxNext]_vars

\* ------------------------------------------------------------------------
\* Properties of the linux device
\* ------------------------------------------------------------------------
LogCalls(call) == {i \in DOMAIN lx_log : lx_log[i].call = call}

\* q = floor(n / d) for d > 0, stated by multiplication
IsFloorOfQuotient(q, n, d) ==
  /\ Leq(Mul(q, d), n)
  /\ Less(n, Mul(Add(q, <<1>>), d))

\* C1: whenever get has read both values, it returns 0 if max = 0 and
\* otherwise exactly floor(actual * 100 / max), for every pair of u32 values.
C1_GetIsExactFloor ==
  (lx_ret.op = "get" /\ lx_ret.at \notin {"read_max", "read_actual"}) =>
     /\ lx_ret.kind = "ok"
     /\ IF lx_max = <<>> THEN lx_ret.val = <<>>
        ELSE IsFloorOfQuotient(lx_ret.val, Mul(lx_actual, Hundred), lx_max)

\* C2: every raw value set sends (over the bus or to the file) is
\* floor(min(p, 100) * max / 100), is at most max, equals max when p >= 100,
\* and is computed without overflow, panic or a lossy cast.
C2_SetClampsThenConverts ==
  /\ ~(lx_ret.op = "set" /\ lx_ret.kind = "panic")
  /\ ~lx_desired.overflow
  /\ ~lx_desired.lossy
  /\ \A i \in LogCalls("SetBrightness") \cup LogCalls("write") :
       /\ IsFloorOfQuotient(lx_log[i].value,
                            Mul(IF Less(lx_percentage, Hundred) THEN lx_percentage ELSE Hundred,
                                lx_max),
                            Hundred)
       /\ Leq(lx_log[i].value, lx_max)
       /\ (Leq(Hundred, lx_percentage) => lx_log[i].value = lx_max)

\* set(75) with max = 255 has sent 191 over the bus
C2_Witness ==
  /\ lx_percentage = FromInt(75)
  /\ lx_max = FromInt(255)
  /\ \E i \in LogCalls("SetBrightness") : lx_log[i].value = FromInt(191)

\* C3: in a set, the file is written if and only if the SetBrightness call
\* ended in a method error, then once and with the same raw value, and the
\* write's outcome is the outcome of set; a successful bus call returns
\* success; a failed connection or another bus failure returns set-failed
\* without a write; a failed read of max returns an error before any bus call.
C3_FallbackOnlyOnMethodError ==
  /\ Cardinality(LogCalls("write")) <= 1
  /\ Cardinality(LogCalls("SetBrightness")) <= 1
  /\ (lx_pc # "write") =>
       (LogCalls("write") # {} <=>
          \E i \in LogCalls("SetBrightness") : lx_log[i].result = "MethodError")
  /\ \A w \in LogCalls("write") :
       /\ \E i \in LogCalls("SetBrightness") : i < w /\ lx_log[i].value = lx_log[w].value
       /\ lx_ret.op = "set"
       /\ lx_ret.kind = (IF lx_log[w].result = "Ok" THEN "ok" ELSE "err")
  /\ \A i \in LogCalls("SetBrightness") :
       /\ lx_log[i].result = "Ok" => lx_ret = Ret("set", "ok", <<>>, "")
       /\ lx_log[i].result = "Other" =>
            lx_ret = Ret("set", "err", <<>>, "SettingBrightnessFailed")
  /\ \A i \in LogCalls("connect") :
       lx_log[i].result = "Err" =>
         /\ lx_ret = Ret("set", "err", <<>>, "SettingBrightnessFailed")
         /\ LogCalls("SetBrightness") = {}
  /\ (lx_ret.op = "set" /\ lx_log[1].result = "Err") =>
       /\ lx_ret.kind = "err"
       /\ Len(lx_log) = 1

\* a set whose bus call ended in a method error, whose one file write failed,
\* and which therefore failed
C3_Witness ==
  /\ \E i \in LogCalls("SetBrightness") : lx_log[i].result = "MethodError"
  /\ \E w \in LogCalls("write") : lx_log[w].result = "Err"
  /\ lx_ret = Ret("set", "err", <<>>, "set_value")

\* ------------------------------------------------------------------------
\* src/windows.rs: DdcciBrightnessValues, the continuous scale
\* ------------------------------------------------------------------------
F64Hundred == F64FromInt(Hundred)

DdcciBrightnessValues(min, current, max) == [min |-> min, current |-> current, max |-> max]

\* lines 478-482
get_current_percentage(self) ==
  LET normalised_max == U32Sub(self.max, self.min)
      normalised_current == U32Sub(self.current, self.min)
      ratio == F64Div(F64FromInt(normalised_current.val), F64FromInt(normalised_max.val))
  IN  [overflow |-> normalised_max.overflow \/ normalised_current.overflow,
       val |-> F64AsU32(F64RoundHalfAway(F64Mul(ratio, F64Hundred)))]

percentage_to_current_without_min(self, percentage) ==
  LET normalised_max == U32Sub(self.max, self.min)
      fraction == F64Div(F64FromInt(percentage), F64Hundred)
      normalised_current == F64Mul(fraction, F64FromInt(normalised_max.val))
  IN  [overflow |-> normalised_max.overflow,
       val |-> F64AsU32(F64RoundHalfAway(normalised_current))]

\* lines 484-489
percentage_to_current(self, percentage) ==
  LET normalised_max == U32Sub(self.max, self.min)
      fraction == F64Div(F64FromInt(percentage), F64Hundred)
      normalised_current == F64Mul(fraction, F64FromInt(normalised_max.val))
      sum == U32Add(F64AsU32(F64RoundHalfAway(normalised_current)), self.min)
  IN  [overflow |-> normalised_max.overflow \/ sum.overflow, val |-> sum.val]

\* widths max - min of the readings taken in full, every current in between
MaxRange == 100

FullRanges == (1..MaxRange) \cup {200, 255, 299, 300}

\* wider readings, taken with the currents near both ends and the middle
WideRanges == {FromInt(n) : n \in {301, 400, 1000, 65535}} \cup {U32Max}

WideCurrents(range) ==
  {FromInt(n) : n \in 0..6} \cup {Sub(range, FromInt(n)) : n \in 0..2}
    \cup {Div(range, <<2>>), Div(range, <<3>>)}

DdcciMins == {0, 10}

DdcciReadings ==
  UNION {{DdcciBrightnessValues(<<>>, FromInt(c), FromInt(r)) : c \in 0..r} : r \in FullRanges}
  \cup {DdcciBrightnessValues(FromInt(m), FromInt(m + c), FromInt(m + r)) :
          m \in DdcciMins, c \in 0..3, r \in {3, 7, 12}}
  \cup UNION {{DdcciBrightnessValues(<<>>, c, r) : c \in WideCurrents(r)} : r \in WideRanges}

\* percentages a caller may pass, besides the one get returned
SetPoints == {0, 100}

DdcciInit ==
  /\ dd_values \in DdcciReadings
  /\ dd_percentage = NoResult
  /\ dd_current = NoResult
  /\ overflow_checks = FALSE
  /\ LinuxIdle
  /\ LevelsIdle
  /\ DeviceIdle
  /\ DiscoveryIdle
  /\ ErrorsIdle

DdcciGetCurrentPercentage ==
  /\ ~dd_percentage.done
  /\ dd_percentage' = [done |-> TRUE, of |-> dd_values.current] @@ get_current_percentage(dd_values)
  /\ UNCHANGED <<dd_values, dd_current>>
  /\ UNCHANGED notDdcci

DdcciPercentageToCurrent ==
  /\ dd_percentage.done
  /\ ~dd_current.done
  /\ \E percentage \in {dd_percentage.val} \cup {FromInt(n) : n \in SetPoints} :
       dd_current' = [done |-> TRUE, of |-> percentage]
                       @@ percentage_to_current(dd_values, percentage)
  /\ UNCHANGED <<dd_values, dd_percentage>>
  /\ UNCHANGED notDdcci

DdcciNext ==
  \/ DdcciGetCurrentPercentage
  \/ DdcciPercentageToCurrent

SpecDdcci == DdcciInit /\ [][DdcciNext]_vars

\* |a - b| <= d
Within(a, b, d) == Leq(a, Add(b, d)) /\ Leq(b, Add(a, d))

RoundTripDone == dd_current.done /\ dd_current.of = dd_percentage.val

DdcciRange == Sub(dd_values.max, dd_values.min)

\* C4 as stated: for every reading with max > min and current in [min, max],
\* percentage_to_current(get_current_percentage(reading)) is within 1 of
\* current.
C4_RoundTripWithinOne ==
  RoundTripDone => Within(dd_current.val, dd_values.current, <<1>>)

\* C4 as amended: the same, for the readings with max - min <= 300.
C4_RoundTripWithinOneUpTo300 ==
  (RoundTripDone /\ Leq(DdcciRange, FromInt(300))) =>
     /\ ~dd_percentage.overflow
     /\ ~dd_current.overflow
     /\ Within(dd_current.val, dd_values.current, <<1>>)

\* a round trip over the range 0..255 that comes back one off: 3 -> 1% -> 3 is
\* exact, 128 -> 50% -> 128 is exact, 1 -> 0% -> 0 is off by one
C4_Witness ==
  /\ RoundTripDone
  /\ dd_values = DdcciBrightnessValues(<<>>, FromInt(1), FromInt(255))
  /\ dd_percentage.val = <<>>
  /\ dd_current.val = <<>>

\* ------------------------------------------------------------------------
\* src/windows.rs: IoctlSupportedBrightnessLevels, the discrete scale
\* ------------------------------------------------------------------------
Abs(n) == IF n < 0 THEN 0 - n ELSE n

\* line 530: the key, in i64
distance(num, percentage) == Abs(num - percentage)

RECURSIVE min_by_key_last(_, _, _, _)
min_by_key_last(levels, percentage, i, best) ==
  IF i > Len(levels) THEN best
  ELSE min_by_key_last(levels, percentage, i + 1,
         IF distance(best, percentage) >= distance(levels[i], percentage)
         THEN levels[i] ELSE best)

RECURSIVE min_by_key(_, _, _, _)
\* Iterator::min_by_key from element i on: the element kept so far is
\* replaced only by one whose key is strictly smaller
min_by_key(levels, percentage, i, best) ==
  IF i > Len(levels) THEN best
  ELSE min_by_key(levels, percentage, i + 1,
         IF distance(best, percentage) > distance(levels[i], percentage)
         THEN levels[i] ELSE best)

\* lines 526-532
get_nearest(self, percentage) ==
  IF self = <<>> THEN 0 ELSE min_by_key(self, percentage, 2, self[1])

MaxLevels == 3

MaxPercentage == 100

LevelValues == {0, 25, 50, 70, 100}

RECURSIVE SeqsUpTo(_, _)
SeqsUpTo(S, n) ==
  IF n = 0 THEN {<<>>}
  ELSE SeqsUpTo(S, n - 1) \cup {Append(q, x) : q \in {r \in SeqsUpTo(S, n - 1) : Len(r) = n - 1}, x \in S}

LevelsInit ==
  /\ lv_levels \in SeqsUpTo(LevelValues, MaxLevels)
  /\ lv_percentage \in 0..MaxPercentage
  /\ lv_nearest = -1
  /\ overflow_checks = FALSE
  /\ LinuxIdle
  /\ DdcciIdle
  /\ DeviceIdle
  /\ DiscoveryIdle
  /\ ErrorsIdle

LevelsGetNearest ==
  /\ lv_nearest = -1
  /\ lv_nearest' = get_nearest(lv_levels, lv_percentage)
  /\ UNCHANGED <<lv_levels, lv_percentage>>
  /\ UNCHANGED notLevels

LevelsNext == LevelsGetNearest

SpecLevels == LevelsInit /\ [][LevelsNext]_vars

\* C6: get_nearest of a non-empty list is a member at minimal absolute
\* distance from the request, the first such member in the list's order; of
\* the empty list it is 0.
C6_NearestIsFirstMinimum ==
  lv_nearest # -1 =>
    IF lv_levels = <<>> THEN lv_nearest = 0
    ELSE \E i \in DOMAIN lv_levels :
           /\ lv_nearest = lv_levels[i]
           /\ \A j \in DOMAIN lv_levels :
                /\ Abs(lv_levels[j] - lv_percentage) >= Abs(lv_levels[i] - lv_percentage)
                /\ j < i => Abs(lv_levels[j] - lv_percentage) > Abs(lv_levels[i] - lv_percentage)

\* 60 is as far from 70 as from 50; 70 comes first and is returned
C6_Witness ==
  /\ lv_levels = <<100, 70, 50>>
  /\ lv_percentage = 60
  /\ lv_nearest = 70

\* ------------------------------------------------------------------------
\* src/windows.rs: get and set of one Brightness device
\* ------------------------------------------------------------------------
\* DISPLAYCONFIG_VIDEO_OUTPUT_TECHNOLOGY values a device-info entry may hold;
\* OTHER is the value for an unknown technology
OutputTechnologies == {"INTERNAL", "HDMI", "DISPLAYPORT_EMBEDDED", "OTHER"}

DISPLAYPOLICY_AC == 1
DISPLAYPOLICY_DC == 2
DISPLAYPOLICY_BOTH == 3

is_internal_or_embedded(output_technology) ==
  output_technology \in {"INTERNAL", "DISPLAYPORT_EMBEDDED"}

\* lines 73-75
is_internal(output_technology) == output_technology = "INTERNAL"

\* a platform call: its name, the handle of the device it was made on, the
\* value passed in or handed back, and how it ended
Platform(call, handle, value, result) ==
  [call |-> call, handle |-> handle, value |-> value, result |-> result]

DISPLAY_BRIGHTNESS(policy, ac, dc) ==
  [ucDisplayPolicy |-> policy, ucACBrightness |-> ac, ucDCBrightness |-> dc]

\* lines 563-596, given the call's success and the buffer it filled
ioctl_query_display_brightness(ok, display_brightness) ==
  IF ~ok THEN Ret("get", "err", <<>>, "IoctlQueryDisplayBrightnessFailed")
  ELSE IF display_brightness.ucDisplayPolicy = DISPLAYPOLICY_AC
  THEN Ret("get", "ok", FromInt(display_brightness.ucACBrightness), "")
  ELSE IF display_brightness.ucDisplayPolicy = DISPLAYPOLICY_DC
  THEN Ret("get", "ok", FromInt(display_brightness.ucDCBrightness), "")
  ELSE Ret("get", "err", <<>>, "IoctlQueryDisplayBrightnessUnexpectedResponse")

ioctl_set_display_brightness_ac_only(value) ==
  DISPLAY_BRIGHTNESS(DISPLAYPOLICY_AC, value, value)

\* lines 598-630: the buffer passed to IOCTL_VIDEO_SET_DISPLAY_BRIGHTNESS
ioctl_set_display_brightness(value) == DISPLAY_BRIGHTNESS(DISPLAYPOLICY_BOTH, value, value)

\* what the platform may answer
DisplayBrightnessAnswers ==
  {DISPLAY_BRIGHTNESS(policy, ac, dc) : policy \in 0..3, ac \in {40}, dc \in {30, 100}}

SupportedLevelAnswers == {<<>>, <<0, 25, 50, 75, 100>>, <<70, 50>>, <<100>>}

MonitorBrightnessAnswers ==
  {DdcciBrightnessValues(FromInt(t[1]), FromInt(t[2]), FromInt(t[3])) :
     t \in {<<0, 50, 100>>, <<10, 20, 30>>, <<10, 10, 10>>, <<10, 12, 10>>, <<10, 5, 10>>}}

SetArguments == {0, 60, 150}

DeviceInit ==
  /\ overflow_checks \in BOOLEAN
  /\ wd_technology \in OutputTechnologies
  /\ wd_percentage = 0
  /\ wd_log = <<>>
  /\ wd_ret = NoRet
  /\ LinuxIdle
  /\ DdcciIdle
  /\ LevelsIdle
  /\ DiscoveryIdle
  /\ ErrorsIdle

\* Brightness::get, lines 123-129
DeviceGet ==
  /\ wd_percentage' = 0
  /\ IF is_internal(wd_technology)
     THEN \E ok \in BOOLEAN, answer \in DisplayBrightnessAnswers :
            /\ wd_log' = <<Platform("IOCTL_VIDEO_QUERY_DISPLAY_BRIGHTNESS", "file_handle",
                                    answer, IF ok THEN "Ok" ELSE "Err")>>
            /\ wd_ret' = ioctl_query_display_brightness(ok, answer)
     ELSE \E ok \in BOOLEAN, answer \in MonitorBrightnessAnswers :
            /\ wd_log' = <<Platform("GetMonitorBrightness", "physical_monitor",
                                    answer, IF ok THEN "Ok" ELSE "Err")>>
            /\ wd_ret' =
                 IF ~ok THEN Ret("get", "err", <<>>, "GettingMonitorBrightnessFailed")
                 ELSE LET percentage == get_current_percentage(answer)
                      IN  IF percentage.overflow /\ overflow_checks
                          THEN Ret("get", "panic", <<>>, "sub")
                          ELSE Ret("get", "ok", percentage.val, "")
  /\ UNCHANGED <<overflow_checks, wd_technology>>
  /\ UNCHANGED notDevice

\* Brightness::set, lines 131-141
DeviceSet ==
  /\ \E percentage \in SetArguments :
       /\ wd_percentage' = percentage
       /\ IF is_internal(wd_technology)
          THEN \E ok \in BOOLEAN, supported \in SupportedLevelAnswers, set_ok \in BOOLEAN :
                 LET query == Platform("IOCTL_VIDEO_QUERY_SUPPORTED_BRIGHTNESS", "file_handle",
                                       supported, IF ok THEN "Ok" ELSE "Err")
                     new_value == get_nearest(supported, percentage)
                 IN  IF ~ok
                     THEN /\ wd_log' = <<query>>
                          /\ wd_ret' = Ret("set", "err", <<>>, "IoctlQuerySupportedBrightnessFailed")
                     ELSE /\ wd_log' = <<query,
                                         Platform("IOCTL_VIDEO_SET_DISPLAY_BRIGHTNESS", "file_handle",
                                                  ioctl_set_display_brightness(new_value),
                                                  IF set_ok THEN "Ok" ELSE "Err")>>
                          /\ wd_ret' = IF set_ok THEN Ret("set", "ok", <<>>, "")
                                       ELSE Ret("set", "err", <<>>, "IoctlSetBrightnessFailed")
          ELSE \E current \in MonitorBrightnessAnswers :
               LET new_value == percentage_to_current(current, FromInt(percentage))
               IN  \E ok \in BOOLEAN, set_ok \in BOOLEAN :
                 LET query == Platform("GetMonitorBrightness", "physical_monitor",
                                       current, IF ok THEN "Ok" ELSE "Err")
                 IN  IF ~ok
                     THEN /\ wd_log' = <<query>>
                          /\ wd_ret' = Ret("set", "err", <<>>, "GettingMonitorBrightnessFailed")
                     ELSE IF new_value.overflow /\ overflow_checks
                     THEN /\ wd_log' = <<query>>
                          /\ wd_ret' = Ret("set", "panic", <<>>, "sub")
                     ELSE /\ wd_log' = <<query,
                                         Platform("SetMonitorBrightness", "physical_monitor",
                                                  new_value.val, IF set_ok THEN "Ok" ELSE "Err")>>
                          /\ wd_ret' = IF set_ok THEN Ret("set", "ok", <<>>, "")
                                       ELSE Ret("set", "err", <<>>, "SettingBrightnessFailed")
  /\ UNCHANGED <<overflow_checks, wd_technology>>
  /\ UNCHANGED notDevice

DeviceNext ==
  \/ DeviceGet
  \/ DeviceSet

SpecDevice == DeviceInit /\ [][DeviceNext]_vars

DeviceCalls(call) == {i \in DOMAIN wd_log : wd_log[i].call = call}

IoctlCalls ==
  {"IOCTL_VIDEO_QUERY_DISPLAY_BRIGHTNESS", "IOCTL_VIDEO_QUERY_SUPPORTED_BRIGHTNESS",
   "IOCTL_VIDEO_SET_DISPLAY_BRIGHTNESS"}

DdcciCalls == {"GetMonitorBrightness", "SetMonitorBrightness"}

\* C5: when GetMonitorBrightness hands back a reading with max = min, the get
\* or set that read it fails: get returns no percentage and set makes no
\* SetMonitorBrightness call.
C5_DegenerateRangeFails ==
  \A i \in DeviceCalls("GetMonitorBrightness") :
    (wd_log[i].result = "Ok" /\ wd_log[i].value.max = wd_log[i].value.min) =>
       /\ wd_ret.kind = "err"
       /\ DeviceCalls("SetMonitorBrightness") = {}

\* C10: every get and set makes its calls by the IOCTL protocol on the file
\* handle if the device's output technology is internal, and by DDC/CI on the
\* physical-monitor handle for every other technology, unknown included.
C10_ProtocolFollowsClassification ==
  wd_ret.op # "none" =>
    /\ wd_log # <<>>
    /\ \A i \in DOMAIN wd_log :
         /\ (wd_log[i].call \in IoctlCalls) <=> (wd_technology = "INTERNAL")
         /\ (wd_log[i].call \in DdcciCalls) <=> (wd_technology # "INTERNAL")
         /\ (wd_log[i].handle = "file_handle") <=> (wd_technology = "INTERNAL")
         /\ (wd_log[i].handle = "physical_monitor") <=> (wd_technology # "INTERNAL")

\* a set on a device of unknown technology that went through to
\* SetMonitorBrightness
C10_Witness ==
  /\ wd_technology = "OTHER"
  /\ wd_ret = Ret("set", "ok", <<>>, "")
  /\ DeviceCalls("SetMonitorBrightness") # {}

\* level is the member of levels nearest to percentage, the first of them if
\* several are as near; 0 if there are no levels
IsNearest(level, levels, percentage) ==
  IF levels = <<>> THEN level = 0
  ELSE \E i \in DOMAIN levels :
         /\ level = levels[i]
         /\ \A j \in DOMAIN levels :
              /\ Abs(levels[j] - percentage) >= Abs(levels[i] - percentage)
              /\ j < i => Abs(levels[j] - percentage) > Abs(levels[i] - percentage)

\* C12: a set on an internal device first queries the supported levels; if
\* the query succeeds it makes exactly one IOCTL_VIDEO_SET_DISPLAY_BRIGHTNESS
\* call, with AC and DC both the level nearest to the argument and the policy
\* covering both (50 for levels 0,25,50,75,100 and the argument 60), and
\* returns that call's failure if it fails; if the query fails it makes no
\* set call and returns the query's failure.
C12_InternalSetSnapsToNearest ==
  (wd_ret.op = "set" /\ wd_technology = "INTERNAL") =>
    /\ Len(wd_log) >= 1
    /\ wd_log[1].call = "IOCTL_VIDEO_QUERY_SUPPORTED_BRIGHTNESS"
    /\ IF wd_log[1].result = "Ok"
       THEN /\ Len(wd_log) = 2
            /\ wd_log[2].call = "IOCTL_VIDEO_SET_DISPLAY_BRIGHTNESS"
            /\ wd_log[2].handle = "file_handle"
            /\ wd_log[2].value.ucDisplayPolicy = DISPLAYPOLICY_BOTH
            /\ wd_log[2].value.ucACBrightness = wd_log[2].value.ucDCBrightness
            /\ IsNearest(wd_log[2].value.ucACBrightness, wd_log[1].value, wd_percentage)
            /\ (wd_log[1].value = <<0, 25, 50, 75, 100>> /\ wd_percentage = 60)
                 => wd_log[2].value.ucACBrightness = 50
            /\ (wd_ret.kind = "ok") <=> (wd_log[2].result = "Ok")
       ELSE /\ Len(wd_log) = 1
            /\ wd_ret = Ret("set", "err", <<>>, "IoctlQuerySupportedBrightnessFailed")

\* set(60) with the levels 0,25,50,75,100 sets 50 for AC and DC
C12_Witness ==
  /\ wd_technology = "INTERNAL"
  /\ wd_percentage = 60
  /\ wd_ret = Ret("set", "ok", <<>>, "")
  /\ Len(wd_log) = 2
  /\ wd_log[1].value = <<0, 25, 50, 75, 100>>
  /\ wd_log[2].value = DISPLAY_BRIGHTNESS(DISPLAYPOLICY_BOTH, 50, 50)

\* ------------------------------------------------------------------------
\* src/windows.rs and src/linux.rs: brightness_devices, the discovery pass
\* ------------------------------------------------------------------------
\* display-config mode entries
MaxModes == 2
\* logical monitors
MaxMonitors == 2
\* physical monitors of one logical monitor
MaxPhysical == 2
\* display devices enumerated for one logical monitor
MaxDevices == 2
\* entries of the backlight directory
MaxEntries == 2

\* the outputTechnology DisplayConfigGetDeviceInfo reports for a path
TechnologyOf == [path \in DevicePaths |-> IF path = "A" THEN "INTERNAL" ELSE "HDMI"]

NoDevice ==
  [physical_monitor |-> <<>>, file_handle |-> <<>>, device_path |-> "",
   output_technology |-> ""]

\* an item of the sequence, with the logical monitor and the position in it
\* (0: the monitor as a whole) it stands for
ErrItem(err, monitor, index) ==
  [ok |-> FALSE, err |-> err, monitor |-> monitor, index |-> index, device |-> NoDevice]

DevItem(monitor, index, device) ==
  [ok |-> TRUE, err |-> "", monitor |-> monitor, index |-> index, device |-> device]

WinCall(call, monitor, index, result) ==
  [call |-> call, monitor |-> monitor, index |-> index, result |-> result]

device_info_entry_never_fatal(result) == FALSE

\* lines 241-248: an answer other than success and access denied is an error
device_info_entry_fatal(result) == result \notin {"SUCCESS", "ACCESS_DENIED"}

RECURSIVE collect_device_info(_, _, _)
\* lines 231-250: the target entries, queried in order and collected into a
\* Result<HashMap>, which stops at the first error
collect_device_info(display_modes, i, map) ==
  IF i > Len(display_modes) THEN [ok |-> TRUE, err |-> "", map |-> map]
  ELSE IF display_modes[i].infoType # "TARGET"
  THEN collect_device_info(display_modes, i + 1, map)
  ELSE IF display_modes[i].result = "SUCCESS"
  THEN collect_device_info(display_modes, i + 1,
         [map EXCEPT ![display_modes[i].path] = TechnologyOf[display_modes[i].path]])
  ELSE IF device_info_entry_fatal(display_modes[i].result)
  THEN [ok |-> FALSE, err |-> "DisplayConfigGetDeviceInfoFailed", map |-> map]
  ELSE collect_device_info(display_modes, i + 1, map)

\* lines 207-251
get_device_info_map(sizes_ok, query_ok, display_modes) ==
  IF ~sizes_ok THEN [ok |-> FALSE, err |-> "GetDisplayConfigBufferSizesFailed", map |-> EmptyMap]
  ELSE IF ~query_ok THEN [ok |-> FALSE, err |-> "QueryDisplayConfigFailed", map |-> EmptyMap]
  ELSE collect_device_info(display_modes, 1, EmptyMap)

\* lines 346-354: CreateFileW on the device path of a display device
OpenCall(monitor, index, path, result) ==
  [call |-> "CreateFileW", monitor |-> monitor, index |-> index, path |-> path,
   result |-> result]

process_pair_defaulting(monitor, i, display_device, map) ==
  LET open == OpenCall(monitor, i, display_device.path, display_device.open)
      destroy == WinCall("DestroyPhysicalMonitor", monitor, i, "Ok")
  IN  IF display_device.open = "ACCESS_DENIED"
      THEN [items |-> <<>>, calls |-> <<open, destroy>>]
      ELSE IF display_device.open # "Ok"
      THEN [items |-> <<ErrItem("OpeningMonitorDeviceInterfaceHandleFailed", monitor, i)>>,
            calls |-> <<open, destroy>>]
      ELSE [items |-> <<DevItem(monitor, i,
                          [physical_monitor |-> <<monitor, i>>,
                           file_handle |-> <<monitor, i>>,
                           device_path |-> display_device.path,
                           output_technology |->
                             IF map[display_device.path] = "absent" THEN "OTHER"
                             ELSE map[display_device.path]])>>,
            calls |-> <<open>>]

\* lines 345-370 and 183-195: one (physical monitor, display device) pair
process_pair(monitor, i, display_device, map) ==
  LET open == OpenCall(monitor, i, display_device.path, display_device.open)
      destroy == WinCall("DestroyPhysicalMonitor", monitor, i, "Ok")
      close == WinCall("CloseHandle", monitor, i, "Ok")
  IN  IF display_device.open = "ACCESS_DENIED"
      THEN [items |-> <<>>, calls |-> <<open, destroy>>]
      ELSE IF display_device.open # "Ok"
      THEN [items |-> <<ErrItem("OpeningMonitorDeviceInterfaceHandleFailed", monitor, i)>>,
            calls |-> <<open, destroy>>]
      ELSE IF map[display_device.path] = "absent"
      THEN [items |-> <<ErrItem("DeviceInfoMissing", monitor, i)>>,
            calls |-> <<open, close, destroy>>]
      ELSE [items |-> <<DevItem(monitor, i,
                          [physical_monitor |-> <<monitor, i>>,
                           file_handle |-> <<monitor, i>>,
                           device_path |-> display_device.path,
                           output_technology |-> map[display_device.path]])>>,
            calls |-> <<open>>]

RECURSIVE process_pairs(_, _, _, _, _)
\* lines 171-197: zip and filter_map, from pair i to pair n
process_pairs(monitor, i, n, display_devices, map) ==
  IF i > n THEN [items |-> <<>>, calls |-> <<>>]
  ELSE LET first == process_pair(monitor, i, display_devices[i], map)
           rest == process_pairs(monitor, i + 1, n, display_devices, map)
       IN  [items |-> first.items \o rest.items, calls |-> first.calls \o rest.calls]

RECURSIVE destroy_physical_monitors(_, _, _)
\* the drop of the physical monitors i..n that were not moved into a pair
destroy_physical_monitors(monitor, i, n) ==
  IF i > n THEN <<>>
  ELSE <<WinCall("DestroyPhysicalMonitor", monitor, i, "Ok")>>
         \o destroy_physical_monitors(monitor, i + 1, n)

\* line 336: the filter on DISPLAY_DEVICE_ACTIVE
active_devices(devices) == SelectSeq(devices, LAMBDA device : device.active)

enumeration_mismatch_ignored(display_devices, physical_count) == FALSE

\* line 165
enumeration_mismatch(display_devices, physical_count) ==
  Len(display_devices) # physical_count

Min(a, b) == IF a < b THEN a ELSE b

\* lines 156-198: the closure flat_map runs for one logical monitor
hmonitor_closure(monitor, physical, display, map) ==
  LET asked_physical ==
        WinCall("get_physical_monitors_from_hmonitor", monitor, 0, IF physical.ok THEN "Ok" ELSE "Err")
      asked_display ==
        WinCall("get_display_devices_from_hmonitor", monitor, 0, IF display.ok THEN "Ok" ELSE "Err")
      display_devices == active_devices(display.devices)
      pairs == process_pairs(monitor, 1, Min(physical.count, Len(display_devices)),
                             display_devices, map)
  IN  IF ~physical.ok
      THEN [items |-> <<ErrItem("GetPhysicalMonitorsFailed", monitor, 0)>>,
            calls |-> <<asked_physical>>]
      ELSE IF ~display.ok
      THEN [items |-> <<ErrItem("GetMonitorInfoFailed", monitor, 0)>>,
            calls |-> <<asked_physical, asked_display>>
                        \o destroy_physical_monitors(monitor, 1, physical.count)]
      ELSE IF enumeration_mismatch(display_devices, physical.count)
      THEN [items |-> <<ErrItem("EnumerationMismatch", monitor, 0)>>,
            calls |-> <<asked_physical, asked_display>>
                        \o destroy_physical_monitors(monitor, 1, physical.count)]
      ELSE [items |-> pairs.items,
            calls |-> <<asked_physical, asked_display>> \o pairs.calls
                        \o destroy_physical_monitors(
                             monitor, Min(physical.count, Len(display_devices)) + 1,
                             physical.count)]

more_hmonitors_until_error(processed, count, items) ==
  processed < count /\ \A k \in DOMAIN items : items[k].ok

\* lines 154-156 and 199: flat_map and collect go through every logical
\* monitor, whatever the items so far
more_hmonitors(processed, count, items) == processed < count

\* linux.rs lines 74-86: one directory entry
entry_closure(index, entry) ==
  IF ~entry.ok THEN <<ErrItem("ReadingBacklightDirFailed", index, 0)>>
  ELSE IF entry.utf8 /\ entry.has_actual /\ entry.has_max
  THEN <<DevItem(index, 0, [NoDevice EXCEPT !.device_path = "entry"])>>
  ELSE <<>>

\* what the platform may answer
ModeEntries ==
  {[infoType |-> "TARGET", path |-> path, result |-> result] :
     path \in DevicePaths, result \in {"SUCCESS", "ACCESS_DENIED", "FAILED"}}
  \cup {[infoType |-> "SOURCE", path |-> "A", result |-> "FAILED"]}

PhysicalAnswers ==
  {[ok |-> FALSE, count |-> 0]} \cup {[ok |-> TRUE, count |-> n] : n \in 0..MaxPhysical}

DeviceKinds ==
  {[path |-> "A", active |-> TRUE, open |-> "Ok"],
   [path |-> "B", active |-> TRUE, open |-> "Ok"],
   [path |-> "A", active |-> TRUE, open |-> "ACCESS_DENIED"],
   [path |-> "B", active |-> TRUE, open |-> "FAILED"],
   [path |-> "A", active |-> FALSE, open |-> "Ok"]}

DisplayAnswers ==
  {[ok |-> FALSE, devices |-> <<>>]}
  \cup {[ok |-> TRUE, devices |-> devices] : devices \in SeqsUpTo(DeviceKinds, MaxDevices)}

EntryAnswers ==
  {[ok |-> FALSE, utf8 |-> TRUE, has_actual |-> TRUE, has_max |-> TRUE]}
  \cup {[ok |-> TRUE, utf8 |-> utf8, has_actual |-> has_actual, has_max |-> has_max] :
          utf8 \in BOOLEAN, has_actual \in BOOLEAN, has_max \in BOOLEAN}

DiscoveryInit ==
  /\ ds_platform \in {"windows", "linux"}
  /\ ds_pc = "start"
  /\ ds_config = NoConfig
  /\ ds_map = EmptyMap
  /\ ds_count = 0
  /\ ds_seen = <<>>
  /\ ds_items = <<>>
  /\ ds_log = <<>>
  /\ ds_caller = NoCaller
  /\ ds_released = {}
  /\ overflow_checks = FALSE
  /\ LinuxIdle
  /\ DdcciIdle
  /\ LevelsIdle
  /\ DeviceIdle
  /\ ErrorsIdle

\* windows.rs lines 146-149
WindowsBuildDeviceInfoMap ==
  /\ ds_platform = "windows"
  /\ ds_pc = "start"
  /\ \E sizes_ok \in BOOLEAN, query_ok \in BOOLEAN,
        display_modes \in SeqsUpTo(ModeEntries, MaxModes) :
       LET info == get_device_info_map(sizes_ok, query_ok, display_modes)
           targets == {i \in DOMAIN display_modes : display_modes[i].infoType = "TARGET"}
       IN  /\ ds_config' =
                [ds_config EXCEPT
                   !.sizes_ok = sizes_ok,
                   !.query_ok = sizes_ok => query_ok,
                   !.entry_failed = sizes_ok /\ query_ok /\
                      \E i \in targets : display_modes[i].result = "FAILED",
                   !.entry_denied = sizes_ok /\ query_ok /\
                      \E i \in targets : display_modes[i].result = "ACCESS_DENIED"]
           /\ IF info.ok
              THEN ds_map' = info.map /\ ds_pc' = "monitors" /\ UNCHANGED ds_items
              ELSE ds_pc' = "stream" /\ ds_items' = <<ErrItem(info.err, 0, 0)>>
                     /\ UNCHANGED ds_map
  /\ UNCHANGED <<ds_platform, ds_count, ds_seen, ds_log, ds_caller, ds_released>>
  /\ UNCHANGED notDiscovery

\* windows.rs lines 150-153, with at most max_count logical monitors
enum_display_monitors_step(max_count) ==
  /\ ds_pc = "monitors"
  /\ \E ok \in BOOLEAN, count \in 0..max_count :
       /\ ds_config' = [ds_config EXCEPT !.monitors_ok = ok]
       /\ IF ok
          THEN ds_count' = count /\ ds_pc' = "flat_map" /\ UNCHANGED ds_items
          ELSE ds_pc' = "stream" /\ ds_items' = <<ErrItem("EnumDisplayMonitorsFailed", 0, 0)>>
                 /\ UNCHANGED ds_count
  /\ UNCHANGED <<ds_platform, ds_map, ds_seen, ds_log, ds_caller, ds_released>>
  /\ UNCHANGED notDiscovery

WindowsEnumDisplayMonitors == enum_display_monitors_step(MaxMonitors)

\* windows.rs lines 156-198, for the next logical monitor
WindowsProcessMonitor ==
  /\ ds_pc = "flat_map"
  /\ more_hmonitors(Len(ds_seen), ds_count, ds_items)
  /\ \E physical \in PhysicalAnswers, display \in DisplayAnswers :
       /\ (~physical.ok => display = [ok |-> FALSE, devices |-> <<>>])
       /\ LET out == hmonitor_closure(Len(ds_seen) + 1, physical, display, ds_map)
          IN  /\ ds_items' = ds_items \o out.items
              /\ ds_log' = ds_log \o out.calls
              /\ ds_seen' = Append(ds_seen,
                   [physical_ok |-> physical.ok,
                    physical_count |-> physical.count,
                    display_ok |-> physical.ok /\ display.ok,
                    display_count |-> Len(active_devices(display.devices))])
  /\ UNCHANGED <<ds_platform, ds_pc, ds_config, ds_map, ds_count, ds_caller, ds_released>>
  /\ UNCHANGED notDiscovery

\* windows.rs lines 199-200: the collected items become the sequence
WindowsCollect ==
  /\ ds_pc = "flat_map"
  /\ ~more_hmonitors(Len(ds_seen), ds_count, ds_items)
  /\ ds_pc' = "stream"
  /\ UNCHANGED <<ds_platform, ds_config, ds_map, ds_count, ds_seen, ds_items, ds_log, ds_caller, ds_released>>
  /\ UNCHANGED notDiscovery

\* linux.rs lines 71-72 and 89-91
LinuxReadDir ==
  /\ ds_platform = "linux"
  /\ ds_pc = "start"
  /\ \E ok \in BOOLEAN, count \in 0..MaxEntries :
       /\ ds_config' = [ds_config EXCEPT !.read_dir_ok = ok]
       /\ IF ok
          THEN /\ ds_count' = count
               /\ ds_pc' = IF count = 0 THEN "stream" ELSE "entries"
               /\ UNCHANGED ds_items
          ELSE /\ ds_pc' = "stream"
               /\ ds_items' = <<ErrItem("ReadingBacklightDirFailed", 0, 0)>>
               /\ UNCHANGED ds_count
  /\ UNCHANGED <<ds_platform, ds_map, ds_seen, ds_log, ds_caller, ds_released>>
  /\ UNCHANGED notDiscovery

\* linux.rs lines 73-86, for the next directory entry
LinuxNextEntry ==
  /\ ds_pc = "entries"
  /\ \E entry \in EntryAnswers :
       /\ ds_items' = ds_items \o entry_closure(Len(ds_seen) + 1, entry)
       /\ ds_seen' = Append(ds_seen, entry)
  /\ ds_pc' = IF Len(ds_seen) + 1 = ds_count THEN "stream" ELSE "entries"
  /\ UNCHANGED <<ds_platform, ds_config, ds_map, ds_count, ds_log, ds_caller, ds_released>>
  /\ UNCHANGED notDiscovery

\* a handle: which kind, and the (logical monitor, position) it was got for
Handle(kind, id) == <<kind, id[1], id[2]>>

ReleasedTimes(released, handle) ==
  IF \E r \in released : r.handle = handle
  THEN (CHOOSE r \in released : r.handle = handle).times
  ELSE 0

\* one more call of the release primitive on the handle
Release(released, handle) ==
  {r \in released : r.handle # handle}
    \cup {[handle |-> handle, times |-> ReleasedTimes(released, handle) + 1]}

RECURSIVE ReleaseAll(_, _)
ReleaseAll(released, handles) ==
  IF handles = <<>> THEN released
  ELSE ReleaseAll(Release(released, Head(handles)), Tail(handles))

drop_Brightness_without_file_handle(device) ==
  <<Handle("physical_monitor", device.physical_monitor)>>

\* windows.rs lines 58-70, 87-93, 104-110: dropping a Brightness drops its
\* fields in declaration order, the physical monitor and then the file handle
drop_Brightness(device) ==
  <<Handle("physical_monitor", device.physical_monitor),
    Handle("file_handle", device.file_handle)>>

RECURSIVE drop_items(_, _)
\* dropping the items from position k on: a Device releases its handles, an
\* error holds none
drop_items(items, k) ==
  IF k > Len(items) THEN <<>>
  ELSE (IF items[k].ok THEN drop_Brightness(items[k].device) ELSE <<>>)
         \o drop_items(items, k + 1)

\* windows.rs line 200: the caller polls the sequence and is handed the next
\* item; an error item is looked at and dropped, a Device is kept
WindowsStreamNext ==
  /\ ds_platform = "windows"
  /\ ds_pc = "stream"
  /\ ~ds_caller.stream_dropped
  /\ ds_caller.yielded < Len(ds_items)
  /\ ds_caller' =
       [ds_caller EXCEPT
          !.yielded = @ + 1,
          !.held = IF ds_items[ds_caller.yielded + 1].ok
                   THEN @ \cup {ds_caller.yielded + 1} ELSE @]
  /\ UNCHANGED <<ds_platform, ds_pc, ds_config, ds_map, ds_count, ds_seen, ds_items,
                 ds_log, ds_released>>
  /\ UNCHANGED notDiscovery

\* the caller drops one of the Devices it holds
WindowsDropDevice ==
  /\ \E k \in ds_caller.held :
       /\ ds_released' = ReleaseAll(ds_released, drop_Brightness(ds_items[k].device))
       /\ ds_caller' = [ds_caller EXCEPT !.held = @ \ {k}]
  /\ UNCHANGED <<ds_platform, ds_pc, ds_config, ds_map, ds_count, ds_seen, ds_items, ds_log>>
  /\ UNCHANGED notDiscovery

\* the caller drops the sequence, and with it the items not yet handed out
WindowsDropStream ==
  /\ ds_platform = "windows"
  /\ ds_pc = "stream"
  /\ ~ds_caller.stream_dropped
  /\ ds_released' = ReleaseAll(ds_released, drop_items(ds_items, ds_caller.yielded + 1))
  /\ ds_caller' = [ds_caller EXCEPT !.stream_dropped = TRUE]
  /\ UNCHANGED <<ds_platform, ds_pc, ds_config, ds_map, ds_count, ds_seen, ds_items, ds_log>>
  /\ UNCHANGED notDiscovery

DiscoveryNext ==
  \/ WindowsBuildDeviceInfoMap
  \/ WindowsEnumDisplayMonitors
  \/ WindowsProcessMonitor
  \/ WindowsCollect
  \/ LinuxReadDir
  \/ LinuxNextEntry

SpecDiscovery == DiscoveryInit /\ [][DiscoveryNext]_vars

\* logical monitors of a pass whose items the caller goes on to drop
MaxOwnedMonitors == 1

HandlesInit == DiscoveryInit /\ ds_platform = "windows"

HandlesEnumDisplayMonitors == enum_display_monitors_step(MaxOwnedMonitors)

\* a Windows pass, and then the caller polling and dropping
HandlesNext ==
  \/ WindowsBuildDeviceInfoMap
  \/ HandlesEnumDisplayMonitors
  \/ WindowsProcessMonitor
  \/ WindowsCollect
  \/ WindowsStreamNext
  \/ WindowsDropDevice
  \/ WindowsDropStream

SpecHandles == HandlesInit /\ [][HandlesNext]_vars

\* ------------------------------------------------------------------------
\* Properties of the discovery pass
\* ------------------------------------------------------------------------
ItemsOf(monitor) == {k \in DOMAIN ds_items : ds_items[k].monitor = monitor}

Opened(monitor, index) ==
  {j \in DOMAIN ds_log : /\ ds_log[j].call = "CreateFileW"
                         /\ ds_log[j].monitor = monitor
                         /\ ds_log[j].index = index}

CountsDiffer(monitor) ==
  /\ ds_seen[monitor].physical_ok
  /\ ds_seen[monitor].display_ok
  /\ ds_seen[monitor].physical_count # ds_seen[monitor].display_count

\* C7: on Windows, a logical monitor whose two enumerations both succeed
\* with different counts contributes exactly one EnumerationMismatch error
\* and no Device, and no device file is opened for it.
C7_MismatchYieldsOneError ==
  ds_platform = "windows" =>
    \A monitor \in DOMAIN ds_seen :
      CountsDiffer(monitor) =>
        /\ Cardinality(ItemsOf(monitor)) = 1
        /\ \A k \in ItemsOf(monitor) :
             ~ds_items[k].ok /\ ds_items[k].err = "EnumerationMismatch"
        /\ \A index \in 0..MaxPhysical + MaxDevices : Opened(monitor, index) = {}

\* two physical monitors against one display device, next to a monitor
\* that yields a Device
C7_Witness ==
  /\ ds_platform = "windows"
  /\ ds_pc = "stream"
  /\ \E monitor \in DOMAIN ds_seen :
       /\ CountsDiffer(monitor)
       /\ ds_seen[monitor].physical_count = 2
       /\ ds_seen[monitor].display_count = 1
       /\ \E k \in ItemsOf(monitor) : ds_items[k].err = "EnumerationMismatch"
  /\ \E k \in DOMAIN ds_items : ds_items[k].ok

StructuralFailure ==
  \/ ~ds_config.sizes_ok
  \/ ~ds_config.query_ok
  \/ ds_config.entry_failed
  \/ ~ds_config.monitors_ok
  \/ ~ds_config.read_dir_ok

Before(a, b) ==
  \/ a.monitor < b.monitor
  \/ a.monitor = b.monitor /\ a.index < b.index

MonitorFailed(monitor) ==
  \/ ~ds_seen[monitor].physical_ok
  \/ ~ds_seen[monitor].display_ok
  \/ CountsDiffer(monitor)

\* C8: when the sequence is complete and no structural failure happened,
\* every logical monitor (every directory entry on Linux) was processed,
\* whatever errors came before it: a failed monitor has its one error item,
\* every pair of a good monitor was opened and has its Device or error item
\* unless the open was denied, and the items are in enumeration order.
C8_FailuresDoNotAbort ==
  (ds_pc = "stream" /\ ~StructuralFailure) =>
    /\ Len(ds_seen) = ds_count
    /\ \A k \in DOMAIN ds_items : \A l \in DOMAIN ds_items :
         k < l => Before(ds_items[k], ds_items[l])
    /\ ds_platform = "windows" =>
         \A monitor \in 1..ds_count :
           /\ monitor \in DOMAIN ds_seen
           /\ IF MonitorFailed(monitor)
              THEN /\ Cardinality(ItemsOf(monitor)) = 1
                   /\ \A k \in ItemsOf(monitor) : ~ds_items[k].ok /\ ds_items[k].index = 0
              ELSE \A index \in 1..ds_seen[monitor].physical_count :
                     /\ Cardinality(Opened(monitor, index)) = 1
                     /\ \A j \in Opened(monitor, index) :
                          Cardinality({k \in ItemsOf(monitor) : ds_items[k].index = index})
                            = IF ds_log[j].result = "ACCESS_DENIED" THEN 0 ELSE 1
    /\ ds_platform = "linux" =>
         \A entry \in 1..ds_count :
           /\ entry \in DOMAIN ds_seen
           /\ Cardinality(ItemsOf(entry))
                = IF \/ ~ds_seen[entry].ok
                     \/ ds_seen[entry].utf8 /\ ds_seen[entry].has_actual /\ ds_seen[entry].has_max
                  THEN 1 ELSE 0
           /\ \A k \in ItemsOf(entry) : ds_items[k].ok = ds_seen[entry].ok

\* an open failure for the first pair of the first monitor, then the Device
\* of its second pair, then the Device of the second monitor
C8_Witness ==
  /\ ds_platform = "windows"
  /\ ds_pc = "stream"
  /\ Len(ds_items) >= 3
  /\ ~ds_items[1].ok /\ ds_items[1].monitor = 1 /\ ds_items[1].index = 1
  /\ ds_items[2].ok /\ ds_items[2].monitor = 1 /\ ds_items[2].index = 2
  /\ ds_items[3].ok /\ ds_items[3].monitor = 2

ExpectedStructuralError ==
  IF ~ds_config.sizes_ok THEN "GetDisplayConfigBufferSizesFailed"
  ELSE IF ~ds_config.query_ok THEN "QueryDisplayConfigFailed"
  ELSE IF ds_config.entry_failed THEN "DisplayConfigGetDeviceInfoFailed"
  ELSE IF ~ds_config.monitors_ok THEN "EnumDisplayMonitorsFailed"
  ELSE "ReadingBacklightDirFailed"

\* C9: when building the device-info map fails (an access-denied entry is
\* not a failure), or enumerating the logical monitors fails, or the
\* backlight directory cannot be read, the sequence is exactly one error
\* item, and no physical-monitor enumeration or open was performed; without
\* such a failure no item stands for the pass as a whole.
C9_StructuralFailureIsFatal ==
  /\ StructuralFailure =>
       /\ ds_pc = "stream"
       /\ Len(ds_items) = 1
       /\ ~ds_items[1].ok
       /\ ds_items[1].err = ExpectedStructuralError
       /\ ds_log = <<>>
       /\ ds_seen = <<>>
  /\ ~StructuralFailure => \A k \in DOMAIN ds_items : ds_items[k].monitor >= 1

\* one entry answered access denied, another one failed
C9_Witness ==
  /\ ds_config.entry_failed
  /\ ds_config.entry_denied
  /\ ds_items = <<ErrItem("DisplayConfigGetDeviceInfoFailed", 0, 0)>>
  /\ ds_log = <<>>

PairItems(monitor, index) ==
  {k \in ItemsOf(monitor) : ds_items[k].index = index}

\* C14: on Windows, for every pair (physical monitor i, display device i) of
\* a logical monitor whose two enumerations gave equal counts, the device
\* path is opened once and the pair has no item if the open was denied
\* access, one OpeningMonitorDeviceInterfaceHandleFailed error if it failed
\* otherwise, one DeviceInfoMissing error if it succeeded and the map has no
\* entry for the path, and else one Device with physical monitor i, the
\* opened handle and the map's technology for the path; no Device has a
\* technology that is not the map's entry for its path.
C14_PairHasOneOfFourOutcomes ==
  ds_platform = "windows" =>
    /\ \A monitor \in DOMAIN ds_seen :
         ~MonitorFailed(monitor) =>
           \A index \in 1..ds_seen[monitor].physical_count :
             /\ Cardinality(Opened(monitor, index)) = 1
             /\ \A j \in Opened(monitor, index) :
                  LET open == ds_log[j]
                      items == PairItems(monitor, index)
                  IN  IF open.result = "ACCESS_DENIED" THEN items = {}
                      ELSE /\ Cardinality(items) = 1
                           /\ \A k \in items :
                                IF open.result # "Ok"
                                THEN ds_items[k] =
                                       ErrItem("OpeningMonitorDeviceInterfaceHandleFailed",
                                               monitor, index)
                                ELSE IF ds_map[open.path] = "absent"
                                THEN ds_items[k] = ErrItem("DeviceInfoMissing", monitor, index)
                                ELSE ds_items[k] =
                                       DevItem(monitor, index,
                                               [physical_monitor |-> <<monitor, index>>,
                                                file_handle |-> <<monitor, index>>,
                                                device_path |-> open.path,
                                                output_technology |-> ds_map[open.path]])
    /\ \A k \in DOMAIN ds_items :
         ds_items[k].ok =>
           /\ ds_map[ds_items[k].device.device_path] # "absent"
           /\ ds_items[k].device.output_technology = ds_map[ds_items[k].device.device_path]

\* a pass with the four outcomes: an HDMI Device and a missing entry on the
\* first monitor, a denied open and a failed open on the second
C14_Witness ==
  /\ ds_platform = "windows"
  /\ ds_pc = "stream"
  /\ Len(ds_items) = 3
  /\ ds_items[1].ok
  /\ ds_items[1].device.output_technology = "HDMI"
  /\ ds_items[2] = ErrItem("DeviceInfoMissing", 1, 2)
  /\ ds_items[3] = ErrItem("OpeningMonitorDeviceInterfaceHandleFailed", 2, 2)
  /\ \E j \in Opened(2, 1) : ds_log[j].result = "ACCESS_DENIED"

\* ------------------------------------------------------------------------
\* Properties of handle ownership
\* ------------------------------------------------------------------------
\* every handle a pass within the bounds can obtain
Handles ==
  {<<kind, monitor, index>> :
     kind \in {"physical_monitor", "file_handle"},
     monitor \in 1..MaxMonitors, index \in 1..MaxPhysical}

\* the handles obtained so far: the physical monitors of every successful
\* enumeration and the file handle of every successful open
Obtained ==
  UNION {{<<"physical_monitor", monitor, index>> :
            index \in 1..(IF ds_seen[monitor].physical_ok
                          THEN ds_seen[monitor].physical_count ELSE 0)} :
           monitor \in DOMAIN ds_seen}
  \cup {<<"file_handle", ds_log[j].monitor, ds_log[j].index>> :
          j \in {i \in DOMAIN ds_log :
                   ds_log[i].call = "CreateFileW" /\ ds_log[i].result = "Ok"}}

ReleasePrimitive(handle) ==
  IF handle[1] = "physical_monitor" THEN "DestroyPhysicalMonitor" ELSE "CloseHandle"

\* how often the release primitive was called on the handle, by the pass
\* itself or by a drop on the caller's side
ReleaseCount(handle) ==
  Cardinality({j \in DOMAIN ds_log :
                 /\ ds_log[j].call = ReleasePrimitive(handle)
                 /\ ds_log[j].monitor = handle[2]
                 /\ ds_log[j].index = handle[3]})
    + ReleasedTimes(ds_released, handle)

\* the items that still exist: held by the caller, or not yet handed out by
\* a sequence that still exists
LiveItems ==
  ds_caller.held
    \cup (IF ds_caller.stream_dropped THEN {}
          ELSE {k \in DOMAIN ds_items : k > ds_caller.yielded})

Owners(handle) ==
  {k \in LiveItems :
     /\ ds_items[k].ok
     /\ \/ handle = Handle("physical_monitor", ds_items[k].device.physical_monitor)
        \/ handle = Handle("file_handle", ds_items[k].device.file_handle)}

AllDropped == ds_pc = "stream" /\ ds_caller.stream_dropped /\ ds_caller.held = {}

\* C11: in a Windows pass no handle is released twice and none that was not
\* obtained is released; an obtained handle is either released or owned by
\* exactly one Device that still exists; once the sequence and every Device
\* have been dropped, every obtained handle has been released exactly once.
C11_HandlesReleasedExactlyOnce ==
  ds_platform = "windows" =>
    /\ \A r \in ds_released : r.handle \in Obtained
    /\ \A handle \in Handles \cup Obtained :
         /\ ReleaseCount(handle) <= 1
         /\ ReleaseCount(handle) = 1 => handle \in Obtained
         /\ handle \in Obtained =>
              Cardinality(Owners(handle)) = 1 - ReleaseCount(handle)
         /\ handle \notin Obtained => Owners(handle) = {}
    /\ AllDropped => \A handle \in Obtained : ReleaseCount(handle) = 1

\* everything dropped after a pass that gave two Devices: the first handed
\* out and dropped by the caller, the second dropped with the sequence
C11_Witness ==
  /\ ds_platform = "windows"
  /\ AllDropped
  /\ Len(ds_items) = 2
  /\ ds_caller.yielded = 1
  /\ ds_items[1].ok
  /\ ds_items[2].ok
  /\ \A handle \in Obtained : ReleasedTimes(ds_released, handle) = 1

\* ------------------------------------------------------------------------
\* src/windows.rs: SysError and its conversion into the public Error
\* ------------------------------------------------------------------------
\* lines 374-385: the variants that hold a WinError only
SourceVariants ==
  {"EnumDisplayMonitorsFailed", "GetDisplayConfigBufferSizesFailed",
   "QueryDisplayConfigFailed", "DisplayConfigGetDeviceInfoFailed",
   "GetMonitorInfoFailed", "GetPhysicalMonitorsFailed"}

\* lines 386-395: the variants that hold nothing
UnitVariants == {"EnumerationMismatch", "DeviceInfoMissing"}

\* lines 396-427: the variants that hold a device name and a WinError
NamedSourceVariants ==
  {"OpeningMonitorDeviceInterfaceHandleFailed", "IoctlQuerySupportedBrightnessFailed",
   "IoctlQueryDisplayBrightnessFailed", "GettingMonitorBrightnessFailed",
   "IoctlSetBrightnessFailed", "SettingBrightnessFailed"}

\* lines 411-412: the variant that holds a device name only
NamedVariants == {"IoctlQueryDisplayBrightnessUnexpectedResponse"}

\* a field that a variant does not have is <<>>, one it has is <<value>>
SysError(variant, device_name, source) ==
  [variant |-> variant, device_name |-> device_name, source |-> source]

DeviceNames == {"", "DISPLAY1", "DISPLAY2"}

WinErrors == {5, 31, 87}

SysErrors ==
  {SysError(v, <<>>, <<w>>) : v \in SourceVariants, w \in WinErrors}
  \cup {SysError(v, <<>>, <<>>) : v \in UnitVariants}
  \cup {SysError(v, <<n>>, <<w>>) : v \in NamedSourceVariants, n \in DeviceNames, w \in WinErrors}
  \cup {SysError(v, <<n>>, <<>>) : v \in NamedVariants, n \in DeviceNames}

\* lines 430-462: the three arms of the match
from_SysError(e) ==
  CASE e.variant \in {"EnumerationMismatch", "DeviceInfoMissing",
                      "GetDisplayConfigBufferSizesFailed", "QueryDisplayConfigFailed",
                      "DisplayConfigGetDeviceInfoFailed", "GetPhysicalMonitorsFailed",
                      "EnumDisplayMonitorsFailed", "GetMonitorInfoFailed",
                      "OpeningMonitorDeviceInterfaceHandleFailed"} ->
         [kind |-> "ListingDevicesFailed", device |-> <<>>, source |-> e]
    [] e.variant \in {"IoctlQuerySupportedBrightnessFailed",
                      "IoctlQueryDisplayBrightnessFailed",
                      "IoctlQueryDisplayBrightnessUnexpectedResponse",
                      "GettingMonitorBrightnessFailed"} ->
         [kind |-> "GettingDeviceInfoFailed", device |-> e.device_name, source |-> e]
    [] e.variant \in {"SettingBrightnessFailed", "IoctlSetBrightnessFailed"} ->
         [kind |-> "SettingBrightnessFailed", device |-> e.device_name, source |-> e]

ErrorsInit ==
  /\ er_sys \in SysErrors
  /\ er_public = NoError
  /\ overflow_checks = FALSE
  /\ LinuxIdle
  /\ DdcciIdle
  /\ LevelsIdle
  /\ DeviceIdle
  /\ DiscoveryIdle

\* Error::from(e), as the `?` of a public operation applies it
ErrorsConvert ==
  /\ er_public = NoError
  /\ er_public' = from_SysError(er_sys)
  /\ UNCHANGED er_sys
  /\ UNCHANGED notErrors

ErrorsNext == ErrorsConvert

SpecErrors == ErrorsInit /\ [][ErrorsNext]_vars

SetVariants == {"SettingBrightnessFailed", "IoctlSetBrightnessFailed"}

\* C13: every SysError is converted into exactly one public kind with the
\* SysError itself as the source, and a SysError that has a device name is
\* converted into a public error with that device name: SettingBrightnessFailed
\* for the two set variants, GettingDeviceInfoFailed for the others.
C13_MappingKeepsDeviceIdentity ==
  er_public # NoError =>
    /\ er_public.kind \in
         {"ListingDevicesFailed", "GettingDeviceInfoFailed", "SettingBrightnessFailed"}
    /\ er_public.source = er_sys
    /\ er_sys.device_name # <<>> =>
         /\ er_public.device = er_sys.device_name
         /\ er_public.kind = IF er_sys.variant \in SetVariants
                             THEN "SettingBrightnessFailed"
                             ELSE "GettingDeviceInfoFailed"

\* ------------------------------------------------------------------------
\* src/windows.rs: the DDC/CI scale over every percentage
\* ------------------------------------------------------------------------
\* widths max - min of the ranges taken with every current in between
MaxScaleRange == 12

\* wider ranges, taken with the current at both ends and in the middle
ScaleWideRanges == {FromInt(n) : n \in {100, 255, 301, 1000, 65535}}

ScaleReadings ==
  UNION {{DdcciBrightnessValues(FromInt(m), FromInt(m + c), FromInt(m + r)) : c \in 0..r} :
           m \in DdcciMins, r \in 1..MaxScaleRange}
  \cup UNION {{DdcciBrightnessValues(FromInt(m), Add(FromInt(m), c), Add(FromInt(m), r)) :
                  m \in DdcciMins, c \in {<<>>, Div(r, <<2>>), r}} :
                r \in ScaleWideRanges}
  \cup {DdcciBrightnessValues(<<>>, c, U32Max) : c \in {<<>>, Div(U32Max, <<2>>), U32Max}}

ScaleInit ==
  /\ dd_values \in ScaleReadings
  /\ dd_percentage = NoResult
  /\ dd_current = NoResult
  /\ overflow_checks = FALSE
  /\ LinuxIdle
  /\ LevelsIdle
  /\ DeviceIdle
  /\ DiscoveryIdle
  /\ ErrorsIdle

\* Brightness::set, lines 137-139, called with 0 and then with each next
\* percentage up to 100 on the same reading
ScalePercentageToCurrent ==
  /\ dd_percentage.done
  /\ LET percentage == IF dd_current.done THEN Add(dd_current.of, <<1>>) ELSE <<>>
     IN  /\ Leq(percentage, Hundred)
         /\ dd_current' = [done |-> TRUE, of |-> percentage]
                            @@ percentage_to_current(dd_values, percentage)
  /\ UNCHANGED <<dd_values, dd_percentage>>
  /\ UNCHANGED notDdcci

ScaleNext ==
  \/ DdcciGetCurrentPercentage
  \/ ScalePercentageToCurrent

SpecScale == ScaleInit /\ [][ScaleNext]_vars

ScaleCurrentInRange ==
  dd_current.done =>
    /\ ~dd_current.overflow
    /\ Leq(dd_values.min, dd_current.val)
    /\ Leq(dd_current.val, dd_values.max)
    /\ dd_current.of = <<>> => dd_current.val = dd_values.min
    /\ dd_current.of = Hundred => dd_current.val = dd_values.max

ScalePercentageInRange ==
  dd_percentage.done =>
    /\ ~dd_percentage.overflow
    /\ Leq(dd_percentage.val, Hundred)
    /\ dd_values.current = dd_values.min => dd_percentage.val = <<>>
    /\ dd_values.current = dd_values.max => dd_percentage.val = Hundred

ScaleStepNotDecreasing ==
  (dd_current.done /\ dd_current'.done /\ dd_values' = dd_values
     /\ Leq(dd_current.of, dd_current'.of))
    => Leq(dd_current.val, dd_current'.val)

\* C15: for every range with max > min, percentage_to_current(p) of every p
\* in 0..100 lies in [min, max], is min for 0 and max for 100, and does not
\* decrease from one p to the next; get_current_percentage of every current
\* in [min, max] lies in 0..100, is 0 at min and 100 at max.
C15_ScaleStaysInRangeAndMonotone ==
  /\ [](ScaleCurrentInRange /\ ScalePercentageInRange)
  /\ [][ScaleStepNotDecreasing]_vars

\* the range 10..22 read at its maximum gives 100%, and 100% is set as 22
C15_Witness ==
  /\ dd_values = DdcciBrightnessValues(FromInt(10), FromInt(22), FromInt(22))
  /\ dd_percentage.done
  /\ dd_percentage.val = Hundred
  /\ dd_current.done
  /\ dd_current.of = Hundred
  /\ dd_current.val = FromInt(22)

====
